---- MODULE Spec2Model ----
(***************************************************************************)
(* Model of tenthousand (src/main.py): the per-task CSV event log, the     *)
(* advisory file lock `locked`, and the CLI commands `add` and `progress`, *)
(* run by independent processes over one shared task store.                *)
(*                                                                         *)
(* Text is a sequence of one-character strings.  A task file is the        *)
(* sequence of characters on disk, so that csv.writer / csv.DictReader,    *)
(* str / int and isoformat / fromisoformat are conversions whose round     *)
(* trip can fail.                                                          *)
(***************************************************************************)
EXTENDS Integers, Sequences, FiniteSets, TLC

\* ------------------------------------------------------------------ bounds
\* Number of concurrently launched CLI processes.
NumProcs == 2
\* Number of CLI invocations run one after another in SpecSeq.
MaxRuns == 3

Procs == 1..NumProcs

\* --------------------------------------------------------------- text
DigitChars == <<"0", "1", "2", "3", "4", "5", "6", "7", "8", "9">>

IsDigit(c) == \E i \in 1..10 : DigitChars[i] = c

DigitVal(c) == (CHOOSE i \in 1..10 : DigitChars[i] = c) - 1

RECURSIVE NatToStr(_)
NatToStr(n) ==
    IF n < 10 THEN <<DigitChars[n + 1]>>
    ELSE NatToStr(n \div 10) \o <<DigitChars[(n % 10) + 1]>>

\* Mutant of IntToStr: the sign of a negative count is dropped.
IntToStr_DropSign(n) == IF n < 0 THEN NatToStr(0 - n) ELSE NatToStr(n)

\* str(count) for a Python int
IntToStr(n) == IF n < 0 THEN <<"-">> \o NatToStr(0 - n) ELSE NatToStr(n)

\* f"{n:0{w}d}" for n >= 0
RECURSIVE ZeroPad(_, _)
ZeroPad(n, w) ==
    IF w = 0 THEN <<>>
    ELSE ZeroPad(n \div 10, w - 1) \o <<DigitChars[(n % 10) + 1]>>

AllDigits(s) == \A i \in 1..Len(s) : IsDigit(s[i])

RECURSIVE DigitsToNat(_)
DigitsToNat(s) ==
    IF Len(s) = 0 THEN 0
    ELSE 10 * DigitsToNat(SubSeq(s, 1, Len(s) - 1)) + DigitVal(s[Len(s)])

\* int(s) for a str: an optional sign, then one or more digits; anything
\* else is a ValueError.
ParseInt(s) ==
    LET signed == Len(s) > 0 /\ s[1] \in {"-", "+"}
        digits == IF signed THEN SubSeq(s, 2, Len(s)) ELSE s
    IN  IF Len(digits) > 0 /\ AllDigits(digits)
        THEN [ok |-> TRUE,
              val |-> IF signed /\ s[1] = "-" THEN 0 - DigitsToNat(digits)
                      ELSE DigitsToNat(digits)]
        ELSE [ok |-> FALSE, val |-> 0]

\* str.lower() on the answers the prompt can receive
Lower(s) == [i \in 1..Len(s) |-> IF s[i] = "Y" THEN "y"
                                 ELSE IF s[i] = "N" THEN "n" ELSE s[i]]

IsPrefix(s, t) == Len(s) <= Len(t) /\ SubSeq(t, 1, Len(s)) = s

\* ------------------------------------------------------------ timestamps
\* The instant the earlier invocations ran at, and the one the modelled
\* processes start at unless the specification says otherwise.
BaseInstant ==
    [year |-> 2026, month |-> 1, day |-> 1, hour |-> 0, minute |-> 0,
     second |-> 0, microsecond |-> 0]

VARIABLE
    wall        \* the UTC date and time, to the second, the processes run at

\* datetime.datetime.now(tz=datetime.timezone.utc) when the clock reads t
Now(t) == [wall EXCEPT !.microsecond = t]

\* datetime.isoformat() of a UTC-aware datetime: the fraction is left out
\* when microsecond = 0.
Isoformat(dt) ==
    ZeroPad(dt.year, 4) \o <<"-">> \o ZeroPad(dt.month, 2) \o <<"-">>
    \o ZeroPad(dt.day, 2) \o <<"T">> \o ZeroPad(dt.hour, 2) \o <<":">>
    \o ZeroPad(dt.minute, 2) \o <<":">> \o ZeroPad(dt.second, 2)
    \o (IF dt.microsecond = 0 THEN <<>>
        ELSE <<".">> \o ZeroPad(dt.microsecond, 6))
    \o <<"+", "0", "0", ":", "0", "0">>

\* The characters of s at positions a..b are digits.
DigitsAt(s, a, b) == \A i \in a..b : IsDigit(s[i])

NumAt(s, a, b) == DigitsToNat(SubSeq(s, a, b))

\* datetime.fromisoformat(s) on the strings a task file can hold: the
\* extended format YYYY-MM-DDTHH:MM:SS[.ffffff]+00:00; anything else is a
\* ValueError.
Fromisoformat(s) ==
    LET n == Len(s)
        frac == n = 32
        tz == IF frac THEN 27 ELSE 20
        shape ==
            /\ n \in {25, 32}
            /\ DigitsAt(s, 1, 4) /\ s[5] = "-" /\ DigitsAt(s, 6, 7)
            /\ s[8] = "-" /\ DigitsAt(s, 9, 10) /\ s[11] = "T"
            /\ DigitsAt(s, 12, 13) /\ s[14] = ":" /\ DigitsAt(s, 15, 16)
            /\ s[17] = ":" /\ DigitsAt(s, 18, 19)
            /\ (frac => s[20] = "." /\ DigitsAt(s, 21, 26))
            /\ SubSeq(s, tz, tz + 5) = <<"+", "0", "0", ":", "0", "0">>
        ranges ==
            /\ NumAt(s, 1, 4) >= 1
            /\ NumAt(s, 6, 7) \in 1..12
            /\ NumAt(s, 9, 10) \in 1..31
            /\ NumAt(s, 12, 13) \in 0..23
            /\ NumAt(s, 15, 16) \in 0..59
            /\ NumAt(s, 18, 19) \in 0..59
    IN  IF shape /\ ranges
        THEN [ok |-> TRUE,
              val |-> [year |-> NumAt(s, 1, 4), month |-> NumAt(s, 6, 7),
                       day |-> NumAt(s, 9, 10), hour |-> NumAt(s, 12, 13),
                       minute |-> NumAt(s, 15, 16),
                       second |-> NumAt(s, 18, 19),
                       microsecond |-> IF frac THEN NumAt(s, 21, 26) ELSE 0]]
        ELSE [ok |-> FALSE, val |-> BaseInstant]

\* ------------------------------------------------------------------- csv
COMMA == ","

TimestampName == <<"t", "i", "m", "e", "s", "t", "a", "m", "p">>
CountName == <<"c", "o", "u", "n", "t">>

RECURSIVE Join(_)
Join(fields) ==
    IF Len(fields) = 0 THEN <<>>
    ELSE IF Len(fields) = 1 THEN fields[1]
    ELSE fields[1] \o <<COMMA>> \o Join(Tail(fields))

\* csv.writer(fd).writerow(fields): no field here needs quoting; the
\* default line terminator is "\r\n".
WriteRow(fields) == Join(fields) \o <<"\r", "\n">>

HeaderRow == WriteRow(<<TimestampName, CountName>>)

EntryRow(dt, count) == WriteRow(<<Isoformat(dt), IntToStr(count)>>)

RECURSIVE Split(_, _)
Split(s, sep) ==
    IF \A i \in 1..Len(s) : s[i] # sep THEN <<s>>
    ELSE LET cut == CHOOSE k \in 1..Len(s) :
                        s[k] = sep /\ \A j \in 1..(k - 1) : s[j] # sep
         IN  <<SubSeq(s, 1, cut - 1)>> \o Split(SubSeq(s, cut + 1, Len(s)), sep)

\* The lines a file opened with open(path, "r") iterates over, without
\* their terminators: text mode with universal newlines ends a line at
\* "\r\n", "\r" or "\n"; a last line need not be terminated.
RECURSIVE Lines(_)
Lines(s) ==
    IF Len(s) = 0 THEN <<>>
    ELSE IF \A i \in 1..Len(s) : s[i] \notin {"\r", "\n"} THEN <<s>>
    ELSE LET cut == CHOOSE k \in 1..Len(s) :
                        /\ s[k] \in {"\r", "\n"}
                        /\ \A j \in 1..(k - 1) : s[j] \notin {"\r", "\n"}
             skip == IF s[cut] = "\r" /\ cut < Len(s) /\ s[cut + 1] = "\n"
                     THEN 2 ELSE 1
         IN  <<SubSeq(s, 1, cut - 1)>>
             \o Lines(SubSeq(s, cut + skip, Len(s)))

\* csv.reader: one list of fields per line, the empty list for an empty line.
CsvRows(bytes) ==
    LET ls == Lines(bytes)
    IN  [n \in 1..Len(ls) |-> IF ls[n] = <<>> THEN <<>> ELSE Split(ls[n], COMMA)]

\* row[key] of the dict csv.DictReader builds: dict(zip(fieldnames, row)),
\* a later duplicate field name winning, and None (restval) for the field
\* names past the end of a short row.
DictGet(fieldnames, row, key) ==
    LET zipped == {i \in 1..Len(fieldnames) : i <= Len(row) /\ fieldnames[i] = key}
        rest == {i \in 1..Len(fieldnames) : i > Len(row) /\ fieldnames[i] = key}
    IN  IF zipped # {}
        THEN [kind |-> "str",
              val |-> row[CHOOSE i \in zipped : \A j \in zipped : j <= i]]
        ELSE IF rest # {} THEN [kind |-> "None", val |-> <<>>]
        ELSE [kind |-> "KeyError", val |-> <<>>]

\* One iteration of the loop of Task.load (lines 119-123).
LoadRow(fieldnames, row) ==
    LET ts == DictGet(fieldnames, row, TimestampName)
        ct == DictGet(fieldnames, row, CountName)
    IN  IF ts.kind = "KeyError" THEN [err |-> "KeyError", entry |-> <<>>]
        ELSE IF ts.kind = "None" THEN [err |-> "TypeError", entry |-> <<>>]
        ELSE IF ~Fromisoformat(ts.val).ok THEN [err |-> "ValueError", entry |-> <<>>]
        ELSE IF ct.kind = "KeyError" THEN [err |-> "KeyError", entry |-> <<>>]
        ELSE IF ct.kind = "None" THEN [err |-> "TypeError", entry |-> <<>>]
        ELSE IF ~ParseInt(ct.val).ok THEN [err |-> "ValueError", entry |-> <<>>]
        ELSE [err |-> "none",
              entry |-> <<Fromisoformat(ts.val).val, ParseInt(ct.val).val>>]

RECURSIVE LoadRows(_, _)
LoadRows(fieldnames, rows) ==
    IF Len(rows) = 0 THEN [err |-> "none", data |-> <<>>]
    ELSE IF rows[1] = <<>> THEN LoadRows(fieldnames, Tail(rows))
    ELSE LET r == LoadRow(fieldnames, rows[1])
         IN  IF r.err # "none" THEN [err |-> r.err, data |-> <<>>]
             ELSE LET more == LoadRows(fieldnames, Tail(rows))
                  IN  IF more.err # "none" THEN more
                      ELSE [err |-> "none", data |-> <<r.entry>> \o more.data]

\* The read of Task.load (lines 116-123): csv.DictReader takes the first
\* row as the field names and skips empty rows after it.
ReadTask(bytes) ==
    LET rows == CsvRows(bytes)
    IN  IF Len(rows) = 0 THEN [err |-> "none", data |-> <<>>]
        ELSE LoadRows(rows[1], Tail(rows))

RECURSIVE SumCounts(_)
SumCounts(data) ==
    IF Len(data) = 0 THEN 0 ELSE data[1][2] + SumCounts(Tail(data))

Counts(data) == [i \in 1..Len(data) |-> data[i][2]]

\* A write of buf through a descriptor opened with "w" whose offset is 0.
WriteAtStart(bytes, buf) ==
    IF Len(buf) >= Len(bytes) THEN buf
    ELSE buf \o SubSeq(bytes, Len(buf) + 1, Len(bytes))

\* A write of buf through a descriptor opened with "a" (O_APPEND).
WriteAtEnd(bytes, buf) == bytes \o buf

\* ------------------------------------------------------------ task store
Pullups == <<"p", "u", "l", "l", "u", "p", "s">>
Pushups == <<"p", "u", "s", "h", "u", "p", "s">>

Pullup == <<"p", "u", "l", "l", "u", "p">>
Pulups == <<"p", "u", "l", "u", "p", "s">>
Pushup == <<"p", "u", "s", "h", "u", "p">>
Plank == <<"p", "l", "a", "n", "k">>

\* The task names a CLI invocation is given.
TaskNames == {Pullups, Pushups}

\* Tasks of the task store that earlier invocations created and that no
\* modelled invocation names: their files exist and do not change.
OtherTasks == {Pullup, Pulups, Pushup, Plank}

\* The count arguments a CLI invocation is given (beartype admits any int).
CountArgs == {-1, 12}

\* What the user can type at the prompt of line 193.
Answers == {<<"y">>, <<"Y">>, <<"n">>, <<>>}

NoFile == [present |-> FALSE, bytes |-> <<>>]

\* A task file as an earlier `add` left it: the header and one entry.
InitialEntry == <<BaseInstant, 5>>
InitialFile ==
    [present |-> TRUE,
     bytes |-> HeaderRow \o EntryRow(InitialEntry[1], InitialEntry[2])]

VARIABLES
    files,      \* task name -> the task file <taskstore>/<name>.csv
    marker,     \* task name -> inode of <name>.csv.lock, 0 when absent
    clock,      \* the wall clock, in microseconds past `wall`
    runs,       \* number of CLI invocations started so far
    pc,         \* process -> the line it is about to execute
    cmd,        \* process -> "add" or "progress"
    task,       \* process -> its task argument
    count,      \* process -> its count argument
    init_task,  \* process -> its --init-task flag
    response,   \* process -> the lowered answer read at the prompt
    mode,       \* process -> the mode locked was called with
    lock_fd,    \* process -> inode its lock_fd is open on, 0 when closed
    flocked,    \* process -> whether it holds the flock on lock_fd
    buf,        \* process -> text written to state_fd and not yet flushed
    task_obj,   \* process -> the data of the Task that Task.new/load returned
    matches,    \* process -> the matches of the TaskNotFoundError raised
    total,      \* process -> the total progress computed
    report,     \* process -> what progress computed and printed
    exit,       \* process -> exit code, -1 while running
    err,        \* process -> the exception that ended it, "none" otherwise
    exc,        \* process -> the exception in flight through locked's finally
    added       \* task name -> the counts Task.add was called with, in order

vars ==
    <<files, marker, clock, runs, pc, cmd, task, count, init_task, response,
      mode, lock_fd, flocked, buf, task_obj, matches, total, exit, err, exc,
      added, wall, report>>

\* Task.exists (lines 138-139)
Exists(name) == files[name].present

\* The inode a newly created file gets: a number no directory entry and
\* no open descriptor refers to.
InodesInUse == {marker[t] : t \in TaskNames} \cup {lock_fd[p] : p \in Procs}
FreshInode ==
    CHOOSE i \in 1..(NumProcs + Cardinality(TaskNames) + 1) :
        /\ i \notin InodesInUse
        /\ \A j \in 1..(i - 1) : j \in InodesInUse

\* fcntl.flock(fd, LOCK_EX) is granted on inode i when no open description
\* holds a lock on it.
LockFree(i) == \A q \in Procs : ~(flocked[q] /\ lock_fd[q] = i)

\* progress has printed nothing.
NoReport ==
    [ran |-> FALSE, now |-> BaseInstant, total |-> 0, days_elapsed |-> 0,
     days_remaining |-> 0, days_in_year |-> 0, expected |-> 0,
     daily_needed |-> [err |-> "none", inf |-> FALSE, num |-> 0, den |-> 1],
     status |-> "none", delta |-> 0]

ProcInit ==
    /\ pc = [p \in Procs |-> "idle"]
    /\ cmd = [p \in Procs |-> "none"]
    /\ task = [p \in Procs |-> Pullups]
    /\ count = [p \in Procs |-> 0]
    /\ init_task = [p \in Procs |-> FALSE]
    /\ response = [p \in Procs |-> <<>>]
    /\ mode = [p \in Procs |-> "none"]
    /\ lock_fd = [p \in Procs |-> 0]
    /\ flocked = [p \in Procs |-> FALSE]
    /\ buf = [p \in Procs |-> <<>>]
    /\ task_obj = [p \in Procs |-> <<>>]
    /\ matches = [p \in Procs |-> <<>>]
    /\ total = [p \in Procs |-> 0]
    /\ report = [p \in Procs |-> NoReport]
    /\ exit = [p \in Procs |-> -1]
    /\ err = [p \in Procs |-> "none"]
    /\ exc = [p \in Procs |-> "none"]

\* The task store before the processes start: each task either has no file
\* or the file an earlier `add` left.
Init ==
    /\ wall = BaseInstant
    /\ files \in [TaskNames -> {NoFile, InitialFile}]
    /\ marker = [t \in TaskNames |-> 0]
    /\ clock = 0
    /\ runs = 0
    /\ added = [t \in TaskNames |->
                  IF files[t].present THEN <<InitialEntry[2]>> ELSE <<>>]
    /\ ProcInit

\* The process ends: sys.exit(code), or an exception nothing catches.
Finish(p, code, exception) ==
    /\ pc' = [pc EXCEPT ![p] = "done"]
    /\ exit' = [exit EXCEPT ![p] = code]
    /\ err' = [err EXCEPT ![p] = exception]

\* `10k add <count> <task> [--init-task]` is launched (lines 285-288).
StartAdd(p) ==
    /\ pc[p] = "idle"
    /\ \E t \in TaskNames, n \in CountArgs, i \in BOOLEAN :
        /\ cmd' = [cmd EXCEPT ![p] = "add"]
        /\ task' = [task EXCEPT ![p] = t]
        /\ count' = [count EXCEPT ![p] = n]
        /\ init_task' = [init_task EXCEPT ![p] = i]
    /\ pc' = [pc EXCEPT ![p] = "add_check"]
    /\ runs' = runs + 1
    /\ UNCHANGED <<files, marker, clock, response, mode, lock_fd, flocked,
                   buf, task_obj, matches, total, exit, err, added, exc,
                   wall, report>>

\* `10k progress <task>` is launched (lines 285-288).
StartProgress(p) ==
    /\ pc[p] = "idle"
    /\ \E t \in TaskNames : task' = [task EXCEPT ![p] = t]
    /\ cmd' = [cmd EXCEPT ![p] = "progress"]
    /\ pc' = [pc EXCEPT ![p] = "load_exists"]
    /\ runs' = runs + 1
    /\ UNCHANGED <<files, marker, clock, count, init_task, response, mode,
                   lock_fd, flocked, buf, task_obj, matches, total, exit, err,
                   added, exc,
                   wall, report>>

\* Mutant of AddCheck: the answer is read and not acted on.
AddCheck_NoAbort(p) ==
    /\ pc[p] = "add_check"
    /\ IF ~Exists(task[p]) /\ ~init_task[p]
       THEN \E answer \in Answers :
              response' = [response EXCEPT ![p] = Lower(answer)]
       ELSE UNCHANGED response
    /\ pc' = [pc EXCEPT ![p] = "new_exists"]
    /\ UNCHANGED <<files, marker, clock, runs, cmd, task, count, init_task,
                   mode, lock_fd, flocked, buf, task_obj, matches, total,
                   exit, err, added, exc,
                   wall, report>>

\* add, lines 190-197: the existence check, the prompt and its answer.
AddCheck(p) ==
    /\ pc[p] = "add_check"
    /\ IF ~Exists(task[p]) /\ ~init_task[p]
       THEN \E answer \in Answers :
              /\ response' = [response EXCEPT ![p] = Lower(answer)]
              /\ IF Lower(answer) # <<"y">>
                 THEN Finish(p, 1, "none")
                 ELSE /\ pc' = [pc EXCEPT ![p] = "new_exists"]
                      /\ UNCHANGED <<exit, err>>
       ELSE /\ pc' = [pc EXCEPT ![p] = "new_exists"]
            /\ UNCHANGED <<response, exit, err>>
    /\ UNCHANGED <<files, marker, clock, runs, cmd, task, count, init_task,
                   mode, lock_fd, flocked, buf, task_obj, matches, total,
                   added, exc,
                   wall, report>>

\* Mutant of NewExists: Task.new without the existence check of line 152.
NewExists_NoCheck(p) ==
    /\ pc[p] = "new_exists"
    /\ pc' = [pc EXCEPT ![p] = "touch"]
    /\ mode' = [mode EXCEPT ![p] = "w"]
    /\ UNCHANGED <<files, marker, clock, runs, cmd, task, count, init_task,
                   response, lock_fd, flocked, buf, task_obj, matches, total,
                   exit, err, added, exc,
                   wall, report>>

\* Task.new, lines 152-158: load an existing task, or call
\* locked(task_file, "w").
NewExists(p) ==
    /\ pc[p] = "new_exists"
    /\ IF Exists(task[p])
       THEN /\ pc' = [pc EXCEPT ![p] = "load_exists"]
            /\ UNCHANGED mode
       ELSE /\ pc' = [pc EXCEPT ![p] = "touch"]
            /\ mode' = [mode EXCEPT ![p] = "w"]
    /\ UNCHANGED <<files, marker, clock, runs, cmd, task, count, init_task,
                   response, lock_fd, flocked, buf, task_obj, matches, total,
                   exit, err, added, exc,
                   wall, report>>

\* ---------------------------------------------------------------- difflib
\* difflib.get_close_matches(name, existing_tasks, n=3, cutoff=0.6) of
\* line 113: n, and the cutoff as the fraction CutoffNum / CutoffDen.
MaxMatches == 3
CutoffNum == 6
CutoffDen == 10

Alphabet ==
    <<"a", "b", "c", "d", "e", "f", "g", "h", "i", "j", "k", "l", "m", "n",
      "o", "p", "q", "r", "s", "t", "u", "v", "w", "x", "y", "z">>

\* ord(c) for the characters of a task name
Ord(c) == CHOOSE i \in 1..Len(Alphabet) : Alphabet[i] = c

\* s < t for two Python str
StrLess(s, t) ==
    \E k \in 1..(Len(t)) :
        /\ \A j \in 1..(k - 1) : j <= Len(s) /\ s[j] = t[j]
        /\ \/ k = Len(s) + 1
           \/ k <= Len(s) /\ Ord(s[k]) < Ord(t[k])

Min2(x, y) == IF x <= y THEN x ELSE y

\* a[i .. i+k-1] = b[j .. j+k-1]
BlockAt(a, b, i, j, k) ==
    /\ i + k - 1 <= Len(a)
    /\ j + k - 1 <= Len(b)
    /\ SubSeq(a, i, i + k - 1) = SubSeq(b, j, j + k - 1)

\* SequenceMatcher.find_longest_match without junk: the longest common
\* block, the one starting earliest in a and then earliest in b.
FindLongestMatch(a, b) ==
    LET sizes == {k \in 1..Min2(Len(a), Len(b)) :
                    \E i \in 1..Len(a), j \in 1..Len(b) : BlockAt(a, b, i, j, k)}
    IN  IF sizes = {} THEN [i |-> 1, j |-> 1, size |-> 0]
        ELSE LET k == CHOOSE x \in sizes : \A y \in sizes : y <= x
                 is == {i \in 1..Len(a) :
                          \E j \in 1..Len(b) : BlockAt(a, b, i, j, k)}
                 i0 == CHOOSE x \in is : \A y \in is : x <= y
                 js == {j \in 1..Len(b) : BlockAt(a, b, i0, j, k)}
                 j0 == CHOOSE x \in js : \A y \in js : x <= y
             IN  [i |-> i0, j |-> j0, size |-> k]

\* The number of matched characters SequenceMatcher.get_matching_blocks
\* adds up: the longest block, then the same to its left and to its right.
RECURSIVE MatchCount(_, _)
MatchCount(a, b) ==
    IF Len(a) = 0 \/ Len(b) = 0 THEN 0
    ELSE LET m == FindLongestMatch(a, b)
         IN  IF m.size = 0 THEN 0
             ELSE m.size
                  + MatchCount(SubSeq(a, 1, m.i - 1), SubSeq(b, 1, m.j - 1))
                  + MatchCount(SubSeq(a, m.i + m.size, Len(a)),
                               SubSeq(b, m.j + m.size, Len(b)))

\* SequenceMatcher(None, a, b).ratio() = 2.0 * M / T as the fraction
\* <<numerator, denominator>>; 1.0 when both are empty.
Ratio(a, b) ==
    IF Len(a) + Len(b) = 0 THEN <<1, 1>>
    ELSE <<2 * MatchCount(a, b), Len(a) + Len(b)>>

RatioAtLeast(r, num, den) == r[1] * den >= num * r[2]

\* (score, x) > (score', y) for the tuples heapq.nlargest orders
Beats(word, x, y) ==
    LET rx == Ratio(x, word)
        ry == Ratio(y, word)
    IN  \/ rx[1] * ry[2] > ry[1] * rx[2]
        \/ rx[1] * ry[2] = ry[1] * rx[2] /\ StrLess(y, x)

\* Mutant of GetCloseMatches: every close match is returned, n is ignored.
GetCloseMatches_NoLimit(word, possibilities) ==
    LET close == {x \in possibilities :
                    RatioAtLeast(Ratio(x, word), CutoffNum, CutoffDen)}
        rank(x) == Cardinality({y \in close : Beats(word, y, x)})
    IN  [k \in 1..Cardinality(close) |-> CHOOSE x \in close : rank(x) = k - 1]

GetCloseMatches(word, possibilities) ==
    LET close == {x \in possibilities :
                    RatioAtLeast(Ratio(x, word), CutoffNum, CutoffDen)}
        rank(x) == Cardinality({y \in close : Beats(word, y, x)})
    IN  [k \in 1..Min2(MaxMatches, Cardinality(close)) |->
            CHOOSE x \in close : rank(x) = k - 1]

\* -------------------------------------------------------------- Task.load
\* Task.load, lines 108-110: the existence check.
LoadExists(p) ==
    /\ pc[p] = "load_exists"
    /\ pc' = [pc EXCEPT ![p] = IF Exists(task[p]) THEN "load_read"
                                ELSE "load_glob"]
    /\ UNCHANGED <<files, marker, clock, runs, cmd, task, count, init_task,
                   response, mode, lock_fd, flocked, buf, task_obj, matches,
                   total, exit, err, added, exc,
                   wall, report>>

\* [f.stem for f in cfg.taskstore.glob("*.csv")] (line 112)
ExistingTasks == {t \in TaskNames : files[t].present} \cup OtherTasks

\* Task.load, lines 112-114, raises TaskNotFoundError(name, matches);
\* progress catches it, prints and exits 1 (lines 217-223).
LoadGlob(p) ==
    /\ pc[p] = "load_glob"
    /\ matches' = [matches EXCEPT ![p] = GetCloseMatches(task[p], ExistingTasks)]
    /\ Finish(p, 1, "TaskNotFoundError")
    /\ UNCHANGED <<files, marker, clock, runs, cmd, task, count, init_task,
                   response, mode, lock_fd, flocked, buf, task_obj, total,
                   added, exc,
                   wall, report>>

\* Task.load, lines 116-125: read and parse the file.  An exception of the
\* parse ends the process; otherwise Task.new returns to add (line 197),
\* or Task.load to progress (line 216).
LoadRead(p) ==
    /\ pc[p] = "load_read"
    /\ LET r == ReadTask(files[task[p]].bytes)
       IN  IF r.err # "none"
           THEN /\ Finish(p, 1, r.err)
                /\ UNCHANGED task_obj
           ELSE /\ task_obj' = [task_obj EXCEPT ![p] = r.data]
                /\ pc' = [pc EXCEPT ![p] = IF cmd[p] = "add" THEN "task_add"
                                            ELSE "report"]
                /\ UNCHANGED <<exit, err>>
    /\ UNCHANGED <<files, marker, clock, runs, cmd, task, count, init_task,
                   response, mode, lock_fd, flocked, buf, matches, total,
                   added, exc,
                   wall, report>>

\* ---------------------------------------------------------------- progress
\* The yearly goal (lines 237, 239, 243).
GOAL == 10000

\* Floor division, as timedelta normalises its fields.
FloorDiv(a, b) == IF a >= 0 THEN a \div b ELSE -((b - 1 - a) \div b)

\* The proleptic Gregorian calendar of the datetime module.
IsLeap(y) == y % 4 = 0 /\ (y % 100 # 0 \/ y % 400 = 0)

DaysInMonth(y, m) ==
    IF m = 2 THEN (IF IsLeap(y) THEN 29 ELSE 28)
    ELSE IF m \in {4, 6, 9, 11} THEN 30 ELSE 31

RECURSIVE DaysBeforeMonth(_, _)
DaysBeforeMonth(y, m) ==
    IF m = 1 THEN 0 ELSE DaysBeforeMonth(y, m - 1) + DaysInMonth(y, m - 1)

DaysBeforeYear(y) ==
    LET z == y - 1 IN z * 365 + z \div 4 - z \div 100 + z \div 400

\* date.toordinal(): the day number, 1 for 0001-01-01.
ToOrdinal(dt) ==
    DaysBeforeYear(dt.year) + DaysBeforeMonth(dt.year, dt.month) + dt.day

SecondOfDay(dt) == dt.hour * 3600 + dt.minute * 60 + dt.second

\* (a - b).days of two UTC datetimes: the timedelta is normalised to
\* 0 <= seconds < 86400 and 0 <= microseconds < 1000000, so that days is
\* the floor of the difference in days.
TimedeltaDays(a, b) ==
    LET days == ToOrdinal(a) - ToOrdinal(b)
        seconds == SecondOfDay(a) - SecondOfDay(b)
        carry == FloorDiv(a.microsecond - b.microsecond, 1000000)
    IN  days + FloorDiv(seconds + carry, 86400)

\* datetime.datetime(y, m, d, tzinfo=utc): midnight at the start of the day.
Midnight(y, m, d) ==
    [year |-> y, month |-> m, day |-> d, hour |-> 0, minute |-> 0,
     second |-> 0, microsecond |-> 0]

\* The float a / b: the quotient kept as a fraction, ZeroDivisionError
\* when b = 0.
TrueDiv(a, b) ==
    [err |-> IF b = 0 THEN "ZeroDivisionError" ELSE "none", inf |-> FALSE,
     num |-> a, den |-> b]

\* float("inf")
Infinity == [err |-> "none", inf |-> TRUE, num |-> 1, den |-> 0]

\* Mutant of DailyNeeded: the division without its guard.
DailyNeeded_NoGuard(tot, days_remaining) ==
    TrueDiv(GOAL - tot, days_remaining)

\* progress, lines 238-240.
DailyNeeded(tot, days_remaining) ==
    IF days_remaining > 0 THEN TrueDiv(GOAL - tot, days_remaining)
    ELSE Infinity

\* progress, line 237: int((days_elapsed / days_in_year) * 10000).  For
\* every day of a 365-day and of a 366-day year the double-precision
\* product truncates to the floor of the exact quotient.
Expected(days_elapsed, days_in_year) ==
    (days_elapsed * GOAL) \div days_in_year

\* Mutant of Schedule: the comparison of line 246 made non-strict.
Schedule_NonStrict(tot, expected) ==
    IF tot <= expected
    THEN [status |-> "behind", delta |-> expected - tot]
    ELSE [status |-> "ahead", delta |-> tot - expected]

\* progress, lines 246-249: the line printed about the schedule.
Schedule(tot, expected) ==
    IF tot < expected
    THEN [status |-> "behind", delta |-> expected - tot]
    ELSE [status |-> "ahead", delta |-> tot - expected]

\* progress, lines 226-249, for the loaded total at the instant now.
Progress(tot, now) ==
    LET year_start == Midnight(now.year, 1, 1)
        year_end == Midnight(now.year, 12, 31)
        days_elapsed == TimedeltaDays(now, year_start)
        days_remaining == TimedeltaDays(year_end, now) + 1
        days_in_year == TimedeltaDays(year_end, year_start) + 1
        expected == Expected(days_elapsed, days_in_year)
        schedule == Schedule(tot, expected)
    IN  [ran |-> TRUE, now |-> now, total |-> tot,
         days_elapsed |-> days_elapsed, days_remaining |-> days_remaining,
         days_in_year |-> days_in_year, expected |-> expected,
         daily_needed |-> DailyNeeded(tot, days_remaining),
         status |-> schedule.status, delta |-> schedule.delta]

\* progress, lines 225-252: the figures are computed and printed; an
\* exception of the arithmetic ends the process before anything is printed.
Report(p) ==
    /\ pc[p] = "report"
    /\ LET r == Progress(SumCounts(task_obj[p]), Now(clock))
       IN  /\ total' = [total EXCEPT ![p] = r.total]
           /\ IF r.daily_needed.err # "none"
              THEN /\ Finish(p, 1, r.daily_needed.err)
                   /\ UNCHANGED report
              ELSE /\ report' = [report EXCEPT ![p] = r]
                   /\ Finish(p, 0, "none")
    /\ UNCHANGED <<files, marker, clock, runs, cmd, task, count, init_task,
                   response, mode, lock_fd, flocked, buf, task_obj, matches,
                   added, exc, wall>>

\* add, line 199, calls Task.add, lines 166-167: locked(task_file, "a").
TaskAdd(p) ==
    /\ pc[p] = "task_add"
    /\ mode' = [mode EXCEPT ![p] = "a"]
    /\ added' = [added EXCEPT ![task[p]] = Append(@, count[p])]
    /\ pc' = [pc EXCEPT ![p] = "touch"]
    /\ UNCHANGED <<files, marker, clock, runs, cmd, task, count, init_task,
                   response, lock_fd, flocked, buf, task_obj, matches, total,
                   exit, err, exc,
                   wall, report>>

\* ----------------------------------------------------------------- locked
\* locked, lines 270-271: lock_file.touch(exist_ok=True).
Touch(p) ==
    /\ pc[p] = "touch"
    /\ marker' = [marker EXCEPT ![task[p]] = IF @ = 0 THEN FreshInode ELSE @]
    /\ pc' = [pc EXCEPT ![p] = "openlock"]
    /\ UNCHANGED <<files, clock, runs, cmd, task, count, init_task, response,
                   mode, lock_fd, flocked, buf, task_obj, matches, total,
                   exit, err, added, exc,
                   wall, report>>

\* locked, line 273: open(lock_file, "r+"), FileNotFoundError when the
\* marker is gone.
OpenLock(p) ==
    /\ pc[p] = "openlock"
    /\ IF marker[task[p]] = 0
       THEN /\ Finish(p, 1, "FileNotFoundError")
            /\ UNCHANGED lock_fd
       ELSE /\ lock_fd' = [lock_fd EXCEPT ![p] = marker[task[p]]]
            /\ pc' = [pc EXCEPT ![p] = "flock"]
            /\ UNCHANGED <<exit, err>>
    /\ UNCHANGED <<files, marker, clock, runs, cmd, task, count, init_task,
                   response, mode, flocked, buf, task_obj, matches, total,
                   added, exc,
                   wall, report>>

\* locked, line 274: fcntl.flock(lock_fd.fileno(), LOCK_EX) blocks until
\* the lock on the inode is free.
Flock(p) ==
    /\ pc[p] = "flock"
    /\ LockFree(lock_fd[p])
    /\ flocked' = [flocked EXCEPT ![p] = TRUE]
    /\ pc' = [pc EXCEPT ![p] = "opendata"]
    /\ UNCHANGED <<files, marker, clock, runs, cmd, task, count, init_task,
                   response, mode, lock_fd, buf, task_obj, matches, total,
                   exit, err, added, exc,
                   wall, report>>

\* Mutant of OpenFile: every mode truncates.
OpenFile_Truncate(f, m) == [present |-> TRUE, bytes |-> <<>>]

\* open(filepath, mode) on the file f: "w" creates or truncates, "a"
\* creates a missing file and leaves an existing one.
OpenFile(f, m) ==
    IF m = "w" THEN [present |-> TRUE, bytes |-> <<>>]
    ELSE [present |-> TRUE, bytes |-> f.bytes]

\* locked, line 277: open(filepath, mode) as state_fd.
OpenData(p) ==
    /\ pc[p] = "opendata"
    /\ files' = [files EXCEPT ![task[p]] = OpenFile(@, mode[p])]
    /\ pc' = [pc EXCEPT ![p] = "body"]
    /\ UNCHANGED <<marker, clock, runs, cmd, task, count, init_task, response,
                   mode, lock_fd, flocked, buf, task_obj, matches, total,
                   exit, err, added, exc,
                   wall, report>>

\* The body of the with statement: Task.new writes the header row (lines
\* 159-160), Task.add reads the clock and writes the entry row (lines
\* 168-170).  The clock has not moved back since it was last read.
Body(p) ==
    /\ pc[p] = "body"
    /\ IF mode[p] = "w"
       THEN /\ buf' = [buf EXCEPT ![p] = HeaderRow]
            /\ UNCHANGED clock
       ELSE \E t \in {clock, clock + 1} :
              /\ clock' = t
              /\ buf' = [buf EXCEPT ![p] = EntryRow(Now(t), count[p])]
    /\ pc' = [pc EXCEPT ![p] = "closedata"]
    /\ UNCHANGED <<files, marker, runs, cmd, task, count, init_task, response,
                   mode, lock_fd, flocked, task_obj, matches, total, exit,
                   err, added, exc,
                   wall, report>>

\* The flush of the buffered text when state_fd is closed.
FlushFile(f, m, text) ==
    [f EXCEPT !.bytes = IF m = "w" THEN WriteAtStart(@, text)
                        ELSE WriteAtEnd(@, text)]

\* Mutant of CloseData: state_fd is left open, its text unflushed, when
\* the finally clause runs.
CloseData_Late(p) ==
    /\ pc[p] = "closedata"
    /\ pc' = [pc EXCEPT ![p] = "unlock"]
    /\ UNCHANGED <<files, marker, clock, runs, cmd, task, count, init_task,
                   response, mode, lock_fd, flocked, buf, task_obj, matches,
                   total, exit, err, added, exc, wall, report>>

\* Mutant of Unlink: the marker is left in the directory.
Unlink_Keep(p) ==
    /\ pc[p] = "unlink"
    /\ lock_fd' = [lock_fd EXCEPT ![p] = 0]
    /\ exc' = [exc EXCEPT ![p] = "none"]
    /\ IF exc[p] # "none"
       THEN /\ Finish(p, 1, exc[p])
            /\ UNCHANGED task_obj
       ELSE IF mode[p] = "w"
       THEN /\ task_obj' = [task_obj EXCEPT ![p] = <<>>]
            /\ pc' = [pc EXCEPT ![p] = "task_add"]
            /\ UNCHANGED <<exit, err>>
       ELSE /\ Finish(p, 0, "none")
            /\ UNCHANGED task_obj
    /\ UNCHANGED <<files, marker, clock, runs, cmd, task, count, init_task,
                   response, mode, flocked, buf, matches, total, added, wall,
                   report>>

\* locked, line 277: the inner with statement closes state_fd.
CloseData(p) ==
    /\ pc[p] = "closedata"
    /\ files' = [files EXCEPT ![task[p]] = FlushFile(@, mode[p], buf[p])]
    /\ buf' = [buf EXCEPT ![p] = <<>>]
    /\ pc' = [pc EXCEPT ![p] = "unlock"]
    /\ UNCHANGED <<marker, clock, runs, cmd, task, count, init_task, response,
                   mode, lock_fd, flocked, task_obj, matches, total, exit,
                   err, added, exc,
                   wall, report>>

\* Mutant of Unlock: the lock is kept.
Unlock_NoRelease(p) ==
    /\ pc[p] = "unlock"
    /\ pc' = [pc EXCEPT ![p] = "unlink"]
    /\ UNCHANGED <<files, marker, clock, runs, cmd, task, count, init_task,
                   response, mode, lock_fd, flocked, buf, task_obj, matches,
                   total, exit, err, added, exc, wall, report>>

\* locked, line 280: fcntl.flock(lock_fd.fileno(), LOCK_UN).
Unlock(p) ==
    /\ pc[p] = "unlock"
    /\ flocked' = [flocked EXCEPT ![p] = FALSE]
    /\ pc' = [pc EXCEPT ![p] = "unlink"]
    /\ UNCHANGED <<files, marker, clock, runs, cmd, task, count, init_task,
                   response, mode, lock_fd, buf, task_obj, matches, total,
                   exit, err, added, exc,
                   wall, report>>

\* locked, line 281: lock_file.unlink(), FileNotFoundError when the marker
\* is gone; the outer with statement closes lock_fd either way.  After it
\* an exception in flight ends the process; otherwise Task.new returns an
\* empty Task (line 162) and Task.add returns to add, which ends.
Unlink(p) ==
    /\ pc[p] = "unlink"
    /\ lock_fd' = [lock_fd EXCEPT ![p] = 0]
    /\ exc' = [exc EXCEPT ![p] = "none"]
    /\ IF marker[task[p]] = 0
       THEN /\ Finish(p, 1, "FileNotFoundError")
            /\ UNCHANGED <<marker, task_obj>>
       ELSE /\ marker' = [marker EXCEPT ![task[p]] = 0]
            /\ IF exc[p] # "none"
               THEN /\ Finish(p, 1, exc[p])
                    /\ UNCHANGED task_obj
               ELSE IF mode[p] = "w"
               THEN /\ task_obj' = [task_obj EXCEPT ![p] = <<>>]
                    /\ pc' = [pc EXCEPT ![p] = "task_add"]
                    /\ UNCHANGED <<exit, err>>
               ELSE /\ Finish(p, 0, "none")
                    /\ UNCHANGED task_obj
    /\ UNCHANGED <<files, clock, runs, cmd, task, count, init_task, response,
                   mode, flocked, buf, matches, total, added,
                   wall, report>>

\* locked, lines 275-279: open(filepath, mode) raises OSError (the storage
\* is unavailable); the finally clause runs with the exception in flight.
OpenDataFails(p) ==
    /\ pc[p] = "opendata"
    /\ exc' = [exc EXCEPT ![p] = "OSError"]
    /\ pc' = [pc EXCEPT ![p] = "unlock"]
    /\ UNCHANGED <<files, marker, clock, runs, cmd, task, count, init_task,
                   response, mode, lock_fd, flocked, buf, task_obj, matches,
                   total, exit, err, added,
                   wall, report>>

\* Mutant of BodyRaises: locked without its try/finally, the exception
\* leaving it at once.
BodyRaises_NoFinally(p) ==
    /\ pc[p] = "body"
    /\ Finish(p, 1, "Exception")
    /\ UNCHANGED <<files, marker, clock, runs, cmd, task, count, init_task,
                   response, mode, lock_fd, flocked, buf, task_obj, matches,
                   total, added, exc,
                   wall, report>>

\* locked, lines 275-279: the body raises before it has written its row;
\* the inner with statement closes state_fd, with nothing to flush, and the
\* finally clause runs with the exception in flight.
BodyRaises(p) ==
    /\ pc[p] = "body"
    /\ exc' = [exc EXCEPT ![p] = "Exception"]
    /\ pc' = [pc EXCEPT ![p] = "unlock"]
    /\ UNCHANGED <<files, marker, clock, runs, cmd, task, count, init_task,
                   response, mode, lock_fd, flocked, buf, task_obj, matches,
                   total, exit, err, added,
                   wall, report>>

\* The process has ended and the next CLI invocation is launched as a new
\* process: nothing of the old process's memory is kept.
Restart(p) ==
    /\ pc[p] = "done"
    /\ runs < MaxRuns
    /\ pc' = [pc EXCEPT ![p] = "idle"]
    /\ cmd' = [cmd EXCEPT ![p] = "none"]
    /\ task' = [task EXCEPT ![p] = Pullups]
    /\ count' = [count EXCEPT ![p] = 0]
    /\ init_task' = [init_task EXCEPT ![p] = FALSE]
    /\ response' = [response EXCEPT ![p] = <<>>]
    /\ mode' = [mode EXCEPT ![p] = "none"]
    /\ task_obj' = [task_obj EXCEPT ![p] = <<>>]
    /\ matches' = [matches EXCEPT ![p] = <<>>]
    /\ total' = [total EXCEPT ![p] = 0]
    /\ report' = [report EXCEPT ![p] = NoReport]
    /\ exit' = [exit EXCEPT ![p] = -1]
    /\ err' = [err EXCEPT ![p] = "none"]
    /\ UNCHANGED <<files, marker, clock, runs, lock_fd, flocked, buf, exc,
                   added, wall>>

\* ------------------------------------------------------------ the system
Step(p) ==
    \/ StartAdd(p)
    \/ StartProgress(p)
    \/ AddCheck(p)
    \/ NewExists(p)
    \/ LoadExists(p)
    \/ LoadGlob(p)
    \/ LoadRead(p)
    \/ Report(p)
    \/ TaskAdd(p)
    \/ Touch(p)
    \/ OpenLock(p)
    \/ Flock(p)
    \/ OpenData(p)
    \/ Body(p)
    \/ CloseData(p)
    \/ Unlock(p)
    \/ Unlink(p)

\* Independently launched processes, interleaved at every system call.
Next == \E p \in Procs : Step(p)

Spec == Init /\ [][Next]_vars

\* The processes again, with the storage failing under locked: the open of
\* the data file or the body may raise.
NextFault ==
    \E p \in Procs : Step(p) \/ OpenDataFails(p) \/ BodyRaises(p)

SpecFault == Init /\ [][NextFault]_vars

\* CLI invocations run one after another, each in a new process.
NextSeq == Step(1) \/ Restart(1)

SpecSeq == Init /\ [][NextSeq]_vars

\* `10k progress` alone, at the instants and on the totals of the year it
\* is asked about: the first, the middle and the last days of every month
\* of a common and of a leap year, at the start, the middle and the last
\* second of the day.
Years == {2026, 2028}

DaysOfMonth(y, m) == {1, 2, 15, DaysInMonth(y, m) - 1, DaysInMonth(y, m)}

TimesOfDay == {<<0, 0, 0>>, <<12, 0, 0>>, <<23, 59, 59>>}

ProgressInstants ==
    UNION {{[Midnight(y, m, d) EXCEPT !.hour = tod[1], !.minute = tod[2],
                                      !.second = tod[3]] :
              d \in DaysOfMonth(y, m), tod \in TimesOfDay} :
           y \in Years, m \in 1..12}

Totals == {0, 4000, 10000, 12000}

\* A task file whose entries sum to c.
TotalFile(c) ==
    [present |-> TRUE, bytes |-> HeaderRow \o EntryRow(BaseInstant, c)]

InitProgress ==
    /\ wall \in ProgressInstants
    /\ \E c \in Totals :
        /\ files = [t \in TaskNames |->
                      IF t = Pullups THEN TotalFile(c) ELSE NoFile]
        /\ added = [t \in TaskNames |->
                      IF t = Pullups THEN <<c>> ELSE <<>>]
    /\ marker = [t \in TaskNames |-> 0]
    /\ clock = 0
    /\ runs = 0
    /\ ProcInit

NextProgress ==
    \/ StartProgress(1)
    \/ LoadExists(1)
    \/ LoadGlob(1)
    \/ LoadRead(1)
    \/ Report(1)

SpecProgress == InitProgress /\ [][NextProgress]_vars

\* ------------------------------------------------------------ properties
\* Process p is inside the body of locked: state_fd is open.
InBody(p) == pc[p] \in {"body", "closedata"}

\* Process p is inside locked, between its call and its return.
InLocked(p) ==
    pc[p] \in {"touch", "openlock", "flock", "opendata", "body", "closedata",
               "unlock", "unlink"}

\* No process is running.
Quiet == \A p \in Procs : pc[p] \in {"idle", "done"}

RECURSIVE SumSeq(_)
SumSeq(q) == IF Len(q) = 0 THEN 0 ELSE q[1] + SumSeq(Tail(q))

Occurrences(q, x) == Cardinality({i \in 1..Len(q) : q[i] = x})

Range(q) == {q[i] : i \in 1..Len(q)}

\* The header row, then only complete entry rows: a timestamp and an
\* integer count each.
WellFormed(bytes) ==
    LET rows == CsvRows(bytes)
    IN  /\ Len(bytes) >= 2
        /\ SubSeq(bytes, Len(bytes) - 1, Len(bytes)) = <<"\r", "\n">>
        /\ Len(rows) >= 1
        /\ rows[1] = <<TimestampName, CountName>>
        /\ \A i \in 2..Len(rows) :
            /\ Len(rows[i]) = 2
            /\ Fromisoformat(rows[i][1]).ok
            /\ ParseInt(rows[i][2]).ok

\* C1: mutual exclusion -- at most one process at a time is inside the body
\* of locked for a path.
C1_MutualExclusion ==
    \A p, q \in Procs :
        (p # q /\ InBody(p) /\ InBody(q)) => task[p] # task[q]

\* C2: concurrent create is safe -- no step truncates or overwrites what an
\* existing task file holds: the file's content stays a prefix of its
\* content after every step.
C2_NoTruncateAfterCreate ==
    [][\A t \in TaskNames :
          files[t].present => IsPrefix(files[t].bytes, files'[t].bytes)]_vars

\* C3: durability round trip -- with the invocations run one after another,
\* whenever no process is running a task file loads to exactly the counts
\* Task.add was called with, in order, their sum is the sum appended, and
\* the total a finished progress computed is that sum.
C3_DurabilityRoundTrip ==
    /\ Quiet =>
         \A t \in TaskNames :
            IF files[t].present
            THEN LET r == ReadTask(files[t].bytes)
                 IN  /\ r.err = "none"
                     /\ Counts(r.data) = added[t]
                     /\ SumCounts(r.data) = SumSeq(added[t])
            ELSE added[t] = <<>>
    /\ \A p \in Procs :
         (pc[p] = "done" /\ cmd[p] = "progress" /\ exit[p] = 0)
            => total[p] = SumSeq(added[task[p]])

\* C3 witness: a progress that ran after two or more appends, one of them
\* of a negative count and one of a count of two digits, has finished.
C3_Witness ==
    \E p \in Procs :
        /\ pc[p] = "done" /\ cmd[p] = "progress" /\ exit[p] = 0
        /\ Len(added[task[p]]) >= 2
        /\ {-1, 12} \subseteq Range(added[task[p]])

\* C4: concurrent appends lose nothing -- when every add found its task
\* existing with entries (so that each only called Task.add on it) and all
\* processes have finished, the file holds exactly the entries Task.add was
\* called with, one complete row per call.
C4_NoLostAppend ==
    (/\ \A p \in Procs : pc[p] = "done"
     /\ \A p \in Procs : cmd[p] = "add" => task_obj[p] # <<>>)
    => \A t \in TaskNames :
          files[t].present =>
             LET r == ReadTask(files[t].bytes)
             IN  /\ WellFormed(files[t].bytes)
                 /\ r.err = "none"
                 /\ Len(r.data) = Len(added[t])
                 /\ \A c \in Range(added[t]) :
                      Occurrences(Counts(r.data), c) = Occurrences(added[t], c)

\* C5: Task.new is idempotent when called sequentially -- whenever Task.new
\* has returned, the Task it returned holds the entries stored in the file,
\* and these are all the entries added so far: nothing was truncated.
C5_NewIdempotent ==
    \A p \in Procs :
        pc[p] = "task_add" =>
            LET r == ReadTask(files[task[p]].bytes)
            IN  /\ files[task[p]].present
                /\ r.err = "none"
                /\ task_obj[p] = r.data
                /\ Counts(task_obj[p]) = added[task[p]]

\* C5 witness: Task.new has returned a task of two or more entries, so it
\* was called on a file that an earlier Task.new and Task.add had written.
C5_Witness ==
    \E p \in Procs : pc[p] = "task_add" /\ Len(task_obj[p]) >= 2

\* C6: guaranteed release -- a process holds the flock only between its
\* acquisition and the finally clause, on every exit path of the body: it
\* never holds it once it has passed the unlock or left locked.
C6_GuaranteedRelease ==
    \A p \in Procs :
        flocked[p] => pc[p] \in {"opendata", "body", "closedata", "unlock"}

\* C6 witness: a process has left locked by an exception of the body or of
\* the open of the data file, and holds no lock.
C6_Witness ==
    \E p \in Procs :
        pc[p] = "done" /\ err[p] \in {"OSError", "Exception"} /\ ~flocked[p]

\* C7: Task.load of a missing task -- it raises TaskNotFoundError with at
\* most 3 suggestions, each the name of an existing task file, the process
\* exits non-zero, and the failing load changes no file and no marker.
C7_NotFoundSuggestions ==
    /\ [](\A p \in Procs :
            err[p] = "TaskNotFoundError" =>
                /\ Len(matches[p]) <= 3
                /\ Range(matches[p]) \subseteq ExistingTasks
                /\ exit[p] # 0 /\ exit[p] # -1)
    /\ [][\A p \in Procs :
            /\ (pc[p] = "load_exists" /\ pc'[p] # pc[p] /\ ~Exists(task[p]))
                => (pc'[p] = "load_glob" /\ files' = files /\ marker' = marker)
            /\ (pc[p] = "load_glob" /\ pc'[p] # pc[p])
                => /\ pc'[p] = "done" /\ err'[p] = "TaskNotFoundError"
                   /\ files' = files /\ marker' = marker]_vars

\* C7 witness: a progress on a missing task has ended with three
\* suggestions while a fourth existing task was as close a match.
C7_Witness ==
    \E p \in Procs :
        /\ cmd[p] = "progress" /\ err[p] = "TaskNotFoundError"
        /\ ~Exists(task[p])
        /\ Len(matches[p]) = 3
        /\ \E t \in ExistingTasks \ Range(matches[p]) :
              RatioAtLeast(Ratio(t, task[p]), CutoffNum, CutoffDen)

\* C8: no task is created without a signal -- a process is inside the
\* locked call of Task.new only with --init-task set or the answer "y", and
\* an add of a missing task with neither exits 1 at once, changing no file,
\* no marker and appending nothing.
C8_NoSilentCreate ==
    /\ [](\A p \in Procs :
            (InLocked(p) /\ mode[p] = "w")
                => (init_task[p] \/ response[p] = <<"y">>))
    /\ [][\A p \in Procs :
            (/\ pc[p] = "add_check" /\ pc'[p] # pc[p]
             /\ ~Exists(task[p]) /\ ~init_task[p] /\ response'[p] # <<"y">>)
            => /\ pc'[p] = "done" /\ exit'[p] = 1
               /\ files' = files /\ marker' = marker /\ added' = added]_vars

\* C8 witness: an add of a missing task without --init-task was answered
\* with something other than "y" and has exited 1, the task still missing.
C8_Witness ==
    \E p \in Procs :
        /\ pc[p] = "done" /\ cmd[p] = "add" /\ exit[p] = 1 /\ err[p] = "none"
        /\ ~init_task[p] /\ response[p] # <<"y">> /\ ~Exists(task[p])

\* C9: every entry row of a task file has a non-negative count.
C9_NonNegativeCounts ==
    \A t \in TaskNames :
        LET rows == CsvRows(files[t].bytes)
        IN  \A i \in 2..Len(rows) :
                (Len(rows[i]) = 2 /\ ParseInt(rows[i][2]).ok)
                    => ParseInt(rows[i][2]).val >= 0

\* C10: file format -- whenever no process is inside a locked body for a
\* task's file, an existing task file is the header row followed only by
\* complete entry rows.
C10_FileFormat ==
    \A t \in TaskNames :
        (files[t].present /\ \A p \in Procs : ~(InBody(p) /\ task[p] = t))
            => WellFormed(files[t].bytes)

\* The last second of the year of now: Dec 31 23:59:59 UTC.
EndOfYear(now) ==
    [Midnight(now.year, 12, 31) EXCEPT !.hour = 23, !.minute = 59,
                                       !.second = 59]

\* C11: whenever progress has reported, its days_remaining is the number of
\* whole days from now to Dec 31 23:59:59 UTC of the year of now, plus one;
\* on Dec 31 it is 1 at every instant of the day.
C11_DaysRemaining ==
    \A p \in Procs :
        report[p].ran =>
            /\ report[p].days_remaining
                 = TimedeltaDays(EndOfYear(report[p].now), report[p].now) + 1
            /\ (report[p].now.month = 12 /\ report[p].now.day = 31
                  => report[p].days_remaining = 1)

\* C12: progress never ends with a division by zero: with days_remaining
\* above 0 the daily rate is (10000 - total) / days_remaining, and with
\* days_remaining at or below 0 it is the infinity sentinel; in both cases
\* progress completes with exit code 0.
C12_NoDivisionByZero ==
    \A p \in Procs :
        /\ err[p] # "ZeroDivisionError"
        /\ (pc[p] = "done" /\ cmd[p] = "progress" /\ err[p] = "none"
              => exit[p] = 0 /\ report[p].ran)
        /\ report[p].ran =>
            /\ report[p].daily_needed.err = "none"
            /\ IF report[p].days_remaining > 0
               THEN /\ ~report[p].daily_needed.inf
                    /\ report[p].daily_needed.den # 0
                    /\ report[p].daily_needed.num = 10000 - report[p].total
                    /\ report[p].daily_needed.den = report[p].days_remaining
               ELSE report[p].daily_needed.inf

\* progress has reported on a day with no day remaining, the rate being
\* the infinity sentinel.
C12_Witness ==
    \E p \in Procs :
        /\ pc[p] = "done" /\ exit[p] = 0
        /\ report[p].ran
        /\ report[p].days_remaining <= 0
        /\ report[p].daily_needed.inf

\* C13: expected is the floor of days_elapsed * 10000 / days_in_year and
\* never exceeds 10000; progress prints 'behind' exactly when
\* total < expected and 'ahead' otherwise, with a non-negative difference
\* in both branches; a total of 10000 is always reported 'ahead'.
C13_ScheduleSign ==
    \A p \in Procs :
        report[p].ran =>
            LET r == report[p]
            IN  /\ r.expected * r.days_in_year <= r.days_elapsed * 10000
                /\ r.days_elapsed * 10000 < (r.expected + 1) * r.days_in_year
                /\ r.expected <= 10000
                /\ r.status \in {"behind", "ahead"}
                /\ (r.status = "behind") = (r.total < r.expected)
                /\ r.status = "behind" => r.delta = r.expected - r.total
                /\ r.status = "ahead" => r.delta = r.total - r.expected
                /\ r.delta >= 0
                /\ (r.total = 10000 => r.status = "ahead")

\* progress has reported a total of 10000 on the last day of the year.
C13_Witness ==
    \E p \in Procs :
        /\ report[p].ran
        /\ report[p].total = 10000
        /\ report[p].days_elapsed = report[p].days_in_year - 1
        /\ report[p].status = "ahead"
        /\ report[p].delta >= 0

\* Process p is inside Task.add: at its call of locked or inside it.
InTaskAdd(p) == pc[p] = "task_add" \/ (mode[p] = "a" /\ InLocked(p))

\* C14: every step of a Task.add leaves the files of the other tasks and
\* their markers as they are; the one step that closes the data file puts
\* exactly one row, a timestamp the clock has shown and the count, after the
\* bytes the file holds, and every other step leaves the file as it is.
C14_AddOnlyAppends ==
    [][\A p \in Procs :
         (InTaskAdd(p) /\ pc'[p] # pc[p]) =>
            /\ \A t \in TaskNames \ {task[p]} :
                 files'[t] = files[t] /\ marker'[t] = marker[t]
            /\ IF pc[p] = "closedata"
               THEN /\ files[task[p]].present
                    /\ \E t \in 0..clock :
                         files'[task[p]] =
                           [files[task[p]] EXCEPT
                              !.bytes = @ \o EntryRow(Now(t), count[p])]
               ELSE files'[task[p]] = files[task[p]]]_vars

\* A Task.add on a file that held an entry has completed, and the file
\* holds that entry and then the new one.
C14_Witness ==
    \E p \in Procs :
        /\ pc[p] = "done" /\ cmd[p] = "add" /\ exit[p] = 0
        /\ LET r == ReadTask(files[task[p]].bytes)
           IN  /\ r.err = "none"
               /\ Len(r.data) >= 2
               /\ r.data[1] = InitialEntry
               /\ r.data[Len(r.data)][2] = count[p]

\* C15: no call of locked ends in the FileNotFoundError that the open of
\* the marker after its touch, or its unlink, raises when another process
\* has removed the marker.
C15_LockedNeverFails ==
    \A p \in Procs : err[p] # "FileNotFoundError"

\* The datetime a is not later than b.
DtLeq(a, b) ==
    \/ ToOrdinal(a) < ToOrdinal(b)
    \/ /\ ToOrdinal(a) = ToOrdinal(b)
       /\ \/ SecondOfDay(a) < SecondOfDay(b)
          \/ /\ SecondOfDay(a) = SecondOfDay(b)
             /\ a.microsecond <= b.microsecond

\* C16: the entries of every task file that loads are in non-decreasing
\* order of their timestamps.
C16_TimestampOrder ==
    \A t \in TaskNames :
        LET r == ReadTask(files[t].bytes)
        IN  (files[t].present /\ r.err = "none") =>
               \A i \in 1..(Len(r.data) - 1) :
                   DtLeq(r.data[i][1], r.data[i + 1][1])

\* Process p has been launched and has not ended.
Running(p) == pc[p] \notin {"idle", "done"}

\* Process p waits in flock for a lock another open description holds.
Blocked(p) == pc[p] = "flock" /\ ~LockFree(lock_fd[p])

\* The lines a process can be about to execute.
PcValues ==
    {"idle", "add_check", "new_exists", "load_exists", "load_glob",
     "load_read", "report", "task_add", "touch", "openlock", "flock",
     "opendata", "body", "closedata", "unlock", "unlink", "done"}

\* Process p can be scheduled: it has not ended and is not blocked.
CanStep(p) == pc[p] # "done" /\ ~Blocked(p)

\* A step of process p as the scheduler sees it: p could be scheduled and
\* has moved to another line.  Every Step(p) is such a step, and a process
\* that can be scheduled has a Step(p) to take.
Advance(p) ==
    /\ CanStep(p)
    /\ \E l \in PcValues \ {pc[p]} : pc' = [pc EXCEPT ![p] = l]

\* The processes under a fair scheduler: a process that stays able to take
\* its next step, a flock that can be granted included, takes it.
SpecLive == Spec /\ \A p \in Procs : WF_pc(Advance(p))

\* C17: a process that calls locked holds no lock (before the flock is
\* granted it holds none, and it has no descriptor left from an earlier
\* call); in no state are all the running processes blocked in flock; and
\* under fair scheduling every invocation that has started ends.
C17_NoDeadlock ==
    /\ [](\A p \in Procs :
            /\ pc[p] \in {"touch", "openlock", "flock"} => ~flocked[p]
            /\ pc[p] \in {"touch", "openlock"} => lock_fd[p] = 0)
    /\ []((\E p \in Procs : Running(p))
            => \E p \in Procs : Running(p) /\ ~Blocked(p))
    /\ \A p \in Procs : Running(p) ~> (pc[p] = "done")

\* A process waits in flock while another holds the lock.
C17_Witness ==
    \E p, q \in Procs :
        /\ p # q
        /\ Blocked(p)
        /\ flocked[q] /\ lock_fd[q] = lock_fd[p]

\* C18: text a process has written and not flushed exists only while it
\* holds the flock; when it releases the flock (line 280) and when it
\* unlinks the marker (line 281) its data file is closed and nothing is
\* left unflushed, and the unlink comes after the release; so at the step
\* that grants a process the flock on an inode, every other process with a
\* descriptor on that inode is outside the body with nothing unflushed.
C18_WriteBeforeRelease ==
    /\ [](\A p \in Procs :
            /\ buf[p] # <<>> => flocked[p] /\ pc[p] = "closedata"
            /\ InBody(p) => flocked[p]
            /\ pc[p] = "unlock" => flocked[p] /\ buf[p] = <<>>
            /\ pc[p] = "unlink" => ~flocked[p] /\ buf[p] = <<>>)
    /\ [][\A q \in Procs :
            (pc[q] = "flock" /\ pc'[q] = "opendata") =>
               \A p \in Procs \ {q} :
                   lock_fd[p] = lock_fd[q] =>
                       /\ buf[p] = <<>>
                       /\ pc[p] \notin {"opendata", "body", "closedata",
                                        "unlock"}]_vars

\* A process holds the flock on the inode on which the previous holder,
\* now at its unlink, still has its descriptor, and the row the previous
\* holder wrote is the last of the file.
C18_Witness ==
    \E p, q \in Procs :
        /\ p # q
        /\ pc[q] = "opendata" /\ flocked[q]
        /\ lock_fd[p] = lock_fd[q]
        /\ pc[p] = "unlink" /\ mode[p] = "a" /\ task[p] = task[q]
        /\ LET r == ReadTask(files[task[p]].bytes)
           IN  /\ r.err = "none"
               /\ Len(r.data) >= 1
               /\ r.data[Len(r.data)][2] = count[p]

\* No process is inside locked on the path of task t.
Quiescent(t) == \A p \in Procs : ~(InLocked(p) /\ task[p] = t)

\* C19: whenever every process that called locked on a task's path has left
\* it, with or without an exception, the marker of the task does not exist.
C19_MarkerEphemeral ==
    \A t \in TaskNames : Quiescent(t) => marker[t] = 0

\* Two calls of locked on a path have ended, one of them with an exception,
\* and no process is inside locked on the path.
C19_Witness ==
    \E p, q \in Procs :
        /\ p # q
        /\ task[p] = task[q]
        /\ pc[p] = "done" /\ pc[q] = "done"
        /\ mode[p] # "none" /\ mode[q] # "none"
        /\ err[p] # "none"
        /\ Quiescent(task[p])
        /\ marker[task[p]] = 0
====
